---------------------------- MODULE Spec2Model ----------------------------
(***************************************************************************)
(* Model of the chat hook (useChat.ts) and its use case (ChatUseCase.ts):  *)
(* the displayed message list fed by history loads and live inserts, the   *)
(* typing-presence tracker with its per-sender expiry timers, the local    *)
(* typing debouncer, and the realtime channels owned by ChatUseCase.       *)
(*                                                                         *)
(* Time is virtual: every pending setTimeout holds the milliseconds left   *)
(* until it is due, Tick lets TickMs elapse, and time does not advance     *)
(* past a timer that is due (the timer callback, or a clearTimeout of it,  *)
(* comes first).                                                           *)
(***************************************************************************)
EXTENDS Integers, Sequences, FiniteSets

\* ------------------------------------------------------------ bounds
MaxSenders == 2
MaxMsgs == 2
MaxMounts == 2
MaxLoads == 1
MaxOps == 1
MaxSends == 1
MaxBodyLen == 2
MaxBurst == 3
MaxCalls == 2
MaxDeletes == 1

\* ------------------------------------------------- program constants
TYPING_EXPIRY_MS == 3000
DEBOUNCE_MS == 1500
LIMITE == 50

\* The grain of virtual time: it divides both delays, so every timer becomes due
\* exactly on a tick.
TickMs == DEBOUNCE_MS \div 2

NULL == 0

Senders == 1..MaxSenders
MsgIds == 1..MaxMsgs
\* The email a sender's client puts in its typing payload (ChatUseCase.ts:128): a
\* fixed attribute of the sender.
EmailOf(u) == IF u = 1 THEN "Desconocido" ELSE "u@x"

Min(a, b) == IF a < b THEN a ELSE b
Max(a, b) == IF a > b THEN a ELSE b

\* ------------------------------------------------------------- state
VARIABLES
    lifecycle,        \* "init" | "mounted" | "unmounted": the effect of useChat
    mountsDone,       \* how many times the effect has run
    mensajes,         \* useState: the displayed list
    cargando,         \* useState: loading flag
    enviando,         \* useState: sending flag
    typingUsers,      \* useState: list of {usuario_id, email}
    typingTimeoutRef, \* useRef: handle of the local "stop typing" timer
    typingTimers,     \* useRef: usuario_id -> timer handle
    timers,           \* the event loop's pending setTimeout entries
    channel,          \* ChatUseCase.channel
    typingChannel,    \* ChatUseCase.typingChannel
    channels,         \* the realtime client's open channels
    store,            \* rows of table "mensajes"
    inserted,         \* every row ever inserted (each raised an INSERT event)
    loads,            \* cargarMensajes calls in flight
    typingOps,        \* setTyping calls in flight (awaiting getUser)
    sends,            \* enviarMensaje calls in flight (fresh: history, no notifyTyping
                      \* was called since the call)
    lastResult,       \* what the last enviarMensaje call of the hook returned
    lastEvt,          \* history: the last typing event handled per sender since subscribing:
                      \* "none", "true", "stop" (a false that cancelled a pending timer), "false"
    lastTrueAge,      \* history: ms since the last TypingEvent(true) per sender
    refreshed,        \* history: the sender's entry had its expiry extended by a later TypingEvent(true)
    notifyAge,        \* history: ms since the last notifyTyping call
    timerStops,       \* history: setTyping(false) calls made by the debounce timer since the last notifyTyping
    sendStopped,      \* history: an enviarMensaje called after the last notifyTyping has
                      \* made its setTyping(false) call
    blankInsert,      \* history: a store insert was issued for a blank body
    burst,            \* history: notifyTyping calls of the current burst (each within
                      \* the debounce delay of the one before, time having passed)
    trueCalls,        \* history: setTyping(true) calls made by those notifyTyping calls
    disposerCalls,    \* history: calls of the disposers returned at the last subscription
    disposerRemoves,  \* history: removeChannel calls those disposers made
    lastLoad,         \* history: the store response applied by the last completed load,
                      \* and whether the displayed list was changed since
    suppressed,       \* history: a live insert event was dropped as a duplicate
    deletes,          \* eliminarMensaje calls in flight (the id each was given)
    lastDelete,       \* history: the last eliminarMensaje call to return, and what it
                      \* did to the displayed list
    lastTyping,       \* history: how the last setTyping call to resume ended
    feed              \* rows whose INSERT event the open mensajes subscription was sent

hookVars == <<mensajes, cargando, enviando, typingUsers, typingTimeoutRef, typingTimers>>
ucVars   == <<channel, typingChannel, channels>>
msgVars  == <<store, inserted, loads>>
opVars   == <<typingOps, sends, lastResult>>
histVars == <<lastEvt, lastTrueAge, refreshed, notifyAge, timerStops, sendStopped,
             blankInsert, burst, trueCalls, disposerCalls, disposerRemoves, lastLoad, suppressed>>
typHist  == <<lastEvt, lastTrueAge, refreshed>>
locHist  == <<notifyAge, timerStops, sendStopped, blankInsert, burst, trueCalls>>
dispHist == <<disposerCalls, disposerRemoves>>
msgHist  == <<lastLoad, suppressed>>
delVars  == <<deletes, lastDelete>>
typOpHist == <<lastTyping>>
feedVars == <<feed>>
vars == <<lifecycle, mountsDone, hookVars, timers, ucVars, msgVars, opVars, histVars,
         delVars, typOpHist, feedVars>>

\* ----------------------------------------------------------- helpers
RECURSIVE Reverse(_)
Reverse(s) == IF s = <<>> THEN <<>> ELSE Append(Reverse(Tail(s)), Head(s))

\* number of entries of typingUsers for sender u
CountUser(list, u) == Cardinality({i \in DOMAIN list : list[i].usuario_id = u})
\* number of entries of mensajes with identifier id
CountId(list, id) == Cardinality({i \in DOMAIN list : list[i].id = id})

\* ------------------------------------------------------------ timers
\* setTimeout returns a handle that nothing else holds: a pending timer's handle is
\* not reused, nor one a ref still stores. The handles given out for one purpose
\* (key 0: the debounce timer, key u: the expiry timer of sender u) are numbered
\* apart from those of the other purposes.
HeldHandles ==
    {t.id : t \in timers} \cup {typingTimeoutRef} \cup {typingTimers[s] : s \in Senders}
HandleOf(key, n) == n * (MaxSenders + 1) + key
FreshHandle(key) ==
    HandleOf(key, CHOOSE n \in 1..(Cardinality(HeldHandles) + 1) :
                     /\ HandleOf(key, n) \notin HeldHandles
                     /\ \A m \in 1..(n - 1) : HandleOf(key, m) \in HeldHandles)

SetTimeout(ts, id, ms, kind, key) ==
    ts \cup {[id |-> id, remaining |-> ms, kind |-> kind, key |-> key]}
ClearTimeout(ts, id) == {t \in ts : t.id # id}

\* ---------------------------------------------- typing callback (hook)
\* (faulty variant: appends without looking for the sender)
AddTypingUserMutAlways(prev, u, email) ==
    Append(prev, [usuario_id |-> u, email |-> email])
AddTypingUser(prev, u, email) ==
    IF \E i \in DOMAIN prev : prev[i].usuario_id = u
    THEN prev
    ELSE Append(prev, [usuario_id |-> u, email |-> email])

\* (faulty variant: the sender's entry is left in the list)
RemoveTypingUserMutKeep(prev, u) == prev
RemoveTypingUser(prev, u) == SelectSeq(prev, LAMBDA x : x.usuario_id # u)

TypingSubscribed == \E c \in channels : c.kind = "typing" /\ c.handler
MensajesSubscribed == \E c \in channels : c.kind = "mensajes" /\ c.handler

\* ------------------------------------------------ channels (use case)
\* supabase.channel(name): a new channel handle of the realtime client.
HeldChannels == {c.id : c \in channels} \cup {channel, typingChannel}
FreshChannel(held) == CHOOSE n \in 1..(Cardinality(held) + 1) : n \notin held

OpenChannel(chans, id, kind, handler) ==
    chans \cup {[id |-> id, kind |-> kind, handler |-> handler]}
\* supabase.removeChannel(ch)
RemoveChannel(chans, id) == {c \in chans : c.id # id}

\* The disposer returned by suscribirseAMensajes, run on the current value of
\* this.channel: the field afterwards, the open channels afterwards and the
\* number of removeChannel calls it made.
Desuscribir(field, chans) ==
    IF field # NULL
    THEN [field |-> NULL, chans |-> RemoveChannel(chans, field), removes |-> 1]
    ELSE [field |-> field, chans |-> chans, removes |-> 0]

\* The disposer returned by suscribirseATyping, run on this.typingChannel.
DesuscribirTyping(field, chans) ==
    IF field # NULL
    THEN [field |-> NULL, chans |-> RemoveChannel(chans, field), removes |-> 1]
    ELSE [field |-> field, chans |-> chans, removes |-> 0]

\* ------------------------------------------------- history bookkeeping
AgeCap == TYPING_EXPIRY_MS
NotifyCap == DEBOUNCE_MS + TickMs

NoCalls == [mensajes |-> 0, typing |-> 0]
\* lastLoad once a later callback has set the displayed list
Stale(last) == [clean |-> FALSE, data |-> <<>>, failed |-> FALSE, done |-> last.done]

\* --------------------------------------------------------- lifecycle
\* useEffect body: cargarMensajes(), suscribirseAMensajes, suscribirseATyping.
Mount ==
    /\ lifecycle \in {"init", "unmounted"}
    /\ mountsDone < MaxMounts
    /\ lifecycle' = "mounted"
    /\ mountsDone' = mountsDone + 1
    /\ cargando' = TRUE
    /\ loads' = Append(loads, [pc |-> "query", data |-> <<>>, failed |-> FALSE,
                            result |-> <<>>, threw |-> FALSE])
    /\ LET c1 == FreshChannel(HeldChannels)
           c2 == FreshChannel(HeldChannels \cup {c1})
       IN  /\ channel' = c1
           /\ typingChannel' = c2
           /\ channels' = OpenChannel(OpenChannel(channels, c1, "mensajes", TRUE),
                                      c2, "typing", TRUE)
    /\ disposerCalls' = NoCalls
    /\ disposerRemoves' = NoCalls
    /\ UNCHANGED <<mensajes, enviando, typingUsers, typingTimeoutRef, typingTimers, timers,
                   store, inserted, opVars, lastEvt, lastTrueAge, refreshed, locHist,
                   lastLoad, suppressed, delVars, typOpHist, feedVars>>

\* The timers left after the cleanup's clearTimeout calls.
CleanupTimers(ts) ==
    LET ts1 == IF typingTimeoutRef # NULL THEN ClearTimeout(ts, typingTimeoutRef) ELSE ts
    IN  {t \in ts1 : t.id \notin {typingTimers[s] : s \in Senders}}

\* useEffect cleanup.
Cleanup ==
    /\ lifecycle = "mounted"
    /\ lifecycle' = "unmounted"
    /\ LET dm == Desuscribir(channel, channels)
           dt == DesuscribirTyping(typingChannel, dm.chans)
       IN  /\ channel' = dm.field
           /\ typingChannel' = dt.field
           /\ channels' = dt.chans
           /\ disposerCalls' = [mensajes |-> disposerCalls.mensajes + 1,
                                typing |-> disposerCalls.typing + 1]
           /\ disposerRemoves' = [mensajes |-> disposerRemoves.mensajes + dm.removes,
                                  typing |-> disposerRemoves.typing + dt.removes]
    /\ timers' = CleanupTimers(timers)
    /\ typingTimers' = [s \in Senders |-> NULL]
    /\ lastEvt' = [s \in Senders |-> "none"]
    /\ lastTrueAge' = [s \in Senders |-> AgeCap]
    /\ refreshed' = [s \in Senders |-> FALSE]
    /\ notifyAge' = NotifyCap
    /\ feed' = {}
    /\ UNCHANGED <<mountsDone, mensajes, cargando, enviando, typingUsers, typingTimeoutRef,
                   msgVars, opVars, timerStops, sendStopped, blankInsert, burst, trueCalls,
                   lastLoad, suppressed, delVars, typOpHist>>

\* ---------------------------------------- typing callback, both branches
\* (faulty variants: the previous timer is left pending)
TypingTrueTimersMutKeep(ts, cur) == ts
TypingTrueTimers(ts, cur) == IF cur # NULL THEN ClearTimeout(ts, cur) ELSE ts
TypingFalseTimersMutKeep(ts, cur) == ts
TypingFalseTimers(ts, cur) == IF cur # NULL THEN ClearTimeout(ts, cur) ELSE ts

TypingEvent(u, email, escribiendo) ==
    /\ TypingSubscribed
    /\ IF escribiendo
       THEN /\ typingUsers' = AddTypingUser(typingUsers, u, email)
            /\ timers' = SetTimeout(TypingTrueTimers(timers, typingTimers[u]),
                                    FreshHandle(u), TYPING_EXPIRY_MS, "typing", u)
            /\ typingTimers' = [typingTimers EXCEPT ![u] = FreshHandle(u)]
            /\ lastEvt' = [lastEvt EXCEPT ![u] = "true"]
            /\ lastTrueAge' = [lastTrueAge EXCEPT ![u] = 0]
            /\ refreshed' = [refreshed EXCEPT
                               ![u] = \E t \in timers : /\ t.id = typingTimers[u]
                                                        /\ t.remaining < TYPING_EXPIRY_MS]
       ELSE /\ timers' = TypingFalseTimers(timers, typingTimers[u])
            /\ typingTimers' = [typingTimers EXCEPT ![u] = NULL]
            /\ typingUsers' = RemoveTypingUser(typingUsers, u)
            /\ lastEvt' = [lastEvt EXCEPT
                             ![u] = IF \E t \in timers : t.id = typingTimers[u]
                                    THEN "stop" ELSE "false"]
            /\ refreshed' = [refreshed EXCEPT ![u] = FALSE]
            /\ lastTrueAge' = [lastTrueAge EXCEPT ![u] = AgeCap]
    /\ UNCHANGED <<lifecycle, mountsDone, mensajes, cargando, enviando, typingTimeoutRef,
                   ucVars, msgVars, opVars, locHist, dispHist, msgHist, delVars, typOpHist,
                   feedVars>>

\* The per-sender expiry timer set at useChat.ts:99 becomes due and runs.
TypingTimerFire ==
    \E t \in timers :
        /\ t.kind = "typing"
        /\ t.remaining = 0
        /\ timers' = timers \ {t}
        /\ typingUsers' = RemoveTypingUser(typingUsers, t.key)
        /\ typingTimers' = [typingTimers EXCEPT ![t.key] = NULL]
        /\ refreshed' = [refreshed EXCEPT ![t.key] = FALSE]
        /\ UNCHANGED <<lifecycle, mountsDone, mensajes, cargando, enviando,
                       typingTimeoutRef, ucVars, msgVars, opVars, lastEvt, lastTrueAge,
                       locHist, dispHist, msgHist, delVars, typOpHist, feedVars>>

\* Virtual time advances by TickMs; a due timer runs (or is cleared) first.
Tick ==
    /\ \A t \in timers : t.remaining > 0
    /\ timers' = {[t EXCEPT !.remaining = Max(0, @ - TickMs)] : t \in timers}
    /\ lastTrueAge' = [s \in Senders |-> Min(AgeCap, lastTrueAge[s] + TickMs)]
    /\ notifyAge' = Min(NotifyCap, notifyAge + TickMs)
    /\ UNCHANGED <<lifecycle, mountsDone, hookVars, ucVars, msgVars, opVars, lastEvt,
                   refreshed, timerStops, sendStopped, blankInsert, burst, trueCalls,
                   dispHist, msgHist, delVars, typOpHist, feedVars>>

\* ------------------------------------------------ table "mensajes"
\* The email the store's trigger denormalizes onto a row; some rows have none.
RowEmail(id) == IF id = 1 THEN "" ELSE "a@x"

NewRow(id) ==
    [id |-> id, created_at |-> Cardinality(inserted) + 1, usuario_email |-> RowEmail(id)]

\* The change feed sends a row's INSERT event to the subscription that is open
\* when the row is inserted.
Emit(sent, row) == IF MensajesSubscribed THEN sent \cup {row} ELSE sent

\* Some client inserts a row with a new identifier.
StoreInsert ==
    \E id \in MsgIds :
        /\ \A r \in inserted : r.id # id
        /\ store' = store \cup {NewRow(id)}
        /\ inserted' = inserted \cup {NewRow(id)}
        /\ feed' = Emit(feed, NewRow(id))
        /\ UNCHANGED <<lifecycle, mountsDone, hookVars, timers, ucVars, loads, opVars,
                       histVars, delVars, typOpHist>>

\* select * order by created_at desc limit n, as the store answers it.
RECURSIVE NewestFirst(_)
NewestFirst(rows) ==
    IF rows = {} THEN <<>>
    ELSE LET r == CHOOSE x \in rows : \A y \in rows : y.created_at <= x.created_at
         IN  <<r>> \o NewestFirst(rows \ {r})
Query(rows, limite) ==
    LET all == NewestFirst(rows) IN SubSeq(all, 1, Min(limite, Len(all)))

\* ---------------------------------------------------- obtenerMensajes
\* The row-to-Mensaje mapping, shared by the history load and the live payload.
FormatMensaje(msg) ==
    [id |-> msg.id, created_at |-> msg.created_at,
     email |-> IF msg.usuario_email = "" THEN "Desconocido" ELSE msg.usuario_email]

MapFormat(data) == [i \in 1..Len(data) |-> FormatMensaje(data[i])]

\* What obtenerMensajes returns for the store's answer: the mapped rows reversed,
\* or [] when the store reported an error.
\* (faulty variant: the rows are not reversed)
ObtenerMensajesMutNoReverse(data, failed) ==
    IF failed THEN <<>> ELSE MapFormat(data)
ObtenerMensajes(data, failed) ==
    IF failed THEN <<>> ELSE Reverse(MapFormat(data))

\* Whether obtenerMensajes rejects when the store reported an error: its catch
\* logs the error and returns [].
\* (faulty variant: the error is rethrown)
ObtenerThrowsMutRethrow(failed) == failed
ObtenerThrows(failed) == FALSE

\* recargarMensajes: cargarMensajes up to its await.
Recargar ==
    /\ lifecycle = "mounted"
    /\ Len(loads) < MaxLoads
    /\ cargando' = TRUE
    /\ loads' = Append(loads, [pc |-> "query", data |-> <<>>, failed |-> FALSE,
                            result |-> <<>>, threw |-> FALSE])
    /\ UNCHANGED <<lifecycle, mountsDone, mensajes, enviando, typingUsers, typingTimeoutRef,
                   typingTimers, timers, ucVars, store, inserted, opVars, histVars, delVars,
                   typOpHist, feedVars>>

\* The store answers the query of a load in flight, with the rows it holds now or
\* with an error.
ObtenerAnswer ==
    \E i \in DOMAIN loads, failed \in BOOLEAN :
        /\ loads[i].pc = "query"
        /\ LET data == IF failed THEN <<>> ELSE Query(store, LIMITE)
           IN  loads' = [loads EXCEPT ![i] = [pc |-> "answered", data |-> data,
                                               failed |-> failed,
                                               result |-> ObtenerMensajes(data, failed),
                                               threw |-> ObtenerThrows(failed)]]
        /\ UNCHANGED <<lifecycle, mountsDone, hookVars, timers, ucVars, store, inserted,
                       opVars, histVars, delVars, typOpHist, feedVars>>

RemoveAt(s, i) == SubSeq(s, 1, i - 1) \o SubSeq(s, i + 1, Len(s))

\* cargarMensajes after its await: setMensajes(result); setCargando(false). (Had
\* the awaited call rejected, neither would run.)
CargarDone ==
    \E i \in DOMAIN loads :
        /\ loads[i].pc = "answered"
        /\ loads' = RemoveAt(loads, i)
        /\ IF loads[i].threw
           THEN UNCHANGED <<mensajes, cargando, lastLoad>>
           ELSE /\ mensajes' = loads[i].result
                /\ cargando' = FALSE
                /\ lastLoad' = [clean |-> TRUE, data |-> loads[i].data,
                                failed |-> loads[i].failed, done |-> TRUE]
        /\ UNCHANGED <<lifecycle, mountsDone, enviando, typingUsers, typingTimeoutRef,
                       typingTimers, timers, ucVars, store, inserted, opVars, typHist,
                       locHist, dispHist, suppressed, delVars, typOpHist, feedVars>>

\* ------------------------------------------------ live insert callback
\* (faulty variant: appends without looking for the id)
AppendIfAbsentMutAlways(prev, nuevoMensaje) == Append(prev, nuevoMensaje)
AppendIfAbsent(prev, nuevoMensaje) ==
    IF \E i \in DOMAIN prev : prev[i].id = nuevoMensaje.id
    THEN prev
    ELSE Append(prev, nuevoMensaje)

\* The change feed delivers the INSERT event of a row (possibly once more).
DeliverInsert ==
    \E r \in feed :
        /\ MensajesSubscribed
        /\ mensajes' = AppendIfAbsent(mensajes, FormatMensaje(r))
        /\ suppressed' = (suppressed \/ \E i \in DOMAIN mensajes : mensajes[i].id = r.id)
        /\ lastLoad' = Stale(lastLoad)
        /\ UNCHANGED <<lifecycle, mountsDone, cargando, enviando, typingUsers,
                       typingTimeoutRef, typingTimers, timers, ucVars, msgVars, opVars,
                       typHist, locHist, dispHist, delVars, typOpHist, feedVars>>

\* ------------------------------------------------ message bodies
\* A body is a sequence of characters; " " stands for the whitespace trim() strips.
Chars == {" ", "a"}
Bodies == UNION {[1..n -> Chars] : n \in 0..MaxBodyLen}

RECURSIVE TrimStart(_)
TrimStart(s) == IF s # <<>> /\ Head(s) = " " THEN TrimStart(Tail(s)) ELSE s
Trim(s) == Reverse(TrimStart(Reverse(TrimStart(s))))

\* !contenido.trim()
\* (faulty variant: the body is tested without trim())
IsBlankMutNoTrim(contenido) == contenido = <<>>
IsBlank(contenido) == Trim(contenido) = <<>>

\* ------------------------------------------------------- setTyping
OpsInFlight == typingOps.t + typingOps.f
\* chatUseCase.setTyping(escribiendo) up to its first await (getUser).
CallSetTyping(ops, escribiendo) ==
    IF escribiendo THEN [ops EXCEPT !.t = @ + 1] ELSE [ops EXCEPT !.f = @ + 1]

\* Whether setTyping rejects when the send on the channel failed: its catch logs
\* the error and swallows it.
\* (faulty variant: the error is rethrown)
SetTypingThrowsMutRethrow(sendFailed) == sendFailed
SetTypingThrows(sendFailed) == FALSE

\* getUser answers a setTyping call in flight: without a user the call returns;
\* with one it opens the typing channel if the use case holds none, and sends the
\* broadcast, which the channel accepts or fails.
SetTypingResume ==
    \E escribiendo \in BOOLEAN, user \in {NULL, 1}, sendOk \in BOOLEAN :
        /\ user = NULL => sendOk
        /\ lastTyping' = [noUser |-> user = NULL, sent |-> user # NULL,
                          failed |-> ~sendOk, threw |-> SetTypingThrows(~sendOk)]
        /\ IF escribiendo THEN typingOps.t > 0 ELSE typingOps.f > 0
        /\ typingOps' = IF escribiendo THEN [typingOps EXCEPT !.t = @ - 1]
                                       ELSE [typingOps EXCEPT !.f = @ - 1]
        /\ IF user # NULL /\ typingChannel = NULL
           THEN LET c == FreshChannel(HeldChannels)
                IN  /\ typingChannel' = c
                    /\ channels' = OpenChannel(channels, c, "typing", FALSE)
                    /\ UNCHANGED channel
           ELSE UNCHANGED ucVars
        /\ UNCHANGED <<lifecycle, mountsDone, hookVars, timers, msgVars, sends, lastResult,
                       histVars, delVars, feedVars>>

\* ------------------------------------------------------ notifyTyping
DebounceTimers == {t \in timers : t.kind = "debounce"}

\* (faulty variant: the pending timer is not cleared)
NotifyClearMutKeep(ts, ref) == ts
NotifyClear(ts, ref) == IF ref # NULL THEN ClearTimeout(ts, ref) ELSE ts

NotifyTyping ==
    /\ lifecycle # "init"
    /\ OpsInFlight < MaxOps
    /\ typingOps' = CallSetTyping(typingOps, TRUE)
    /\ timers' = SetTimeout(NotifyClear(timers, typingTimeoutRef),
                            FreshHandle(0), DEBOUNCE_MS, "debounce", 0)
    /\ typingTimeoutRef' = FreshHandle(0)
    /\ notifyAge' = 0
    /\ timerStops' = 0
    /\ sendStopped' = FALSE
    /\ burst' = IF DebounceTimers = {} THEN 1
                ELSE IF notifyAge > 0 THEN Min(MaxBurst, burst + 1)
                ELSE burst
    /\ trueCalls' = LET made == typingOps'.t - typingOps.t
                    IN  IF DebounceTimers = {} THEN made
                        ELSE IF notifyAge > 0 THEN Min(MaxBurst, trueCalls + made)
                        ELSE trueCalls
    /\ sends' = [i \in DOMAIN sends |-> [sends[i] EXCEPT !.fresh = FALSE]]
    /\ UNCHANGED <<lifecycle, mountsDone, mensajes, cargando, enviando, typingUsers,
                   typingTimers, ucVars, msgVars, lastResult, typHist, blankInsert,
                   dispHist, msgHist, delVars, typOpHist, feedVars>>

\* The timer set at useChat.ts:51 becomes due and runs.
DebounceFire ==
    \E t \in timers :
        /\ t.kind = "debounce"
        /\ t.remaining = 0
        /\ timers' = timers \ {t}
        /\ typingOps' = CallSetTyping(typingOps, FALSE)
        /\ typingTimeoutRef' = NULL
        /\ timerStops' = timerStops + 1
        /\ UNCHANGED <<lifecycle, mountsDone, mensajes, cargando, enviando, typingUsers,
                       typingTimers, ucVars, msgVars, sends, lastResult, typHist, notifyAge,
                       sendStopped, blankInsert, burst, trueCalls, dispHist, msgHist,
                       delVars, typOpHist, feedVars>>

\* ----------------------------------------------------- enviarMensaje
\* The hook's enviarMensaje up to its first await.
EnviarCall ==
    \E contenido \in Bodies :
        /\ lifecycle # "init"
        /\ IF IsBlank(contenido)
           THEN /\ lastResult' = [blank |-> Trim(contenido) = <<>>, success |-> FALSE,
                                  error |-> "El mensaje está vacío",
                                  noUser |-> FALSE, insertIssued |-> FALSE]
                /\ UNCHANGED <<enviando, sends>>
           ELSE /\ Len(sends) < MaxSends
                /\ OpsInFlight < MaxOps
                /\ enviando' = TRUE
                /\ sends' = Append(sends, [pc |-> "getUser", contenido |-> contenido,
                                               user |-> NULL, fresh |-> TRUE])
                /\ UNCHANGED lastResult
        /\ UNCHANGED <<lifecycle, mountsDone, mensajes, cargando, typingUsers,
                       typingTimeoutRef, typingTimers, timers, ucVars, msgVars, typingOps,
                       histVars, delVars, typOpHist, feedVars>>

\* The hook's enviarMensaje after its await of the use case: setEnviando(false),
\* setTyping(false), return resultado. (user: what getUser answered that call.)
EnviarReturn(i, user, success, error) ==
    /\ enviando' = FALSE
    /\ typingOps' = CallSetTyping(typingOps, FALSE)
    /\ sendStopped' = (sendStopped \/ sends[i].fresh)
    /\ lastResult' = [blank |-> Trim(sends[i].contenido) = <<>>, success |-> success,
                      error |-> error, noUser |-> user = NULL,
                      insertIssued |-> sends[i].pc = "insert"]
    /\ sends' = RemoveAt(sends, i)

\* The guard of ChatUseCase.enviarMensaje on what getUser resolved.
\* (faulty variant: the guard is missing)
AutenticadoMutAlways(user) == TRUE
Autenticado(user) == user # NULL

\* getUser answers ChatUseCase.enviarMensaje: without a user it returns the
\* authentication failure, with one it issues the insert.
EnviarAuth ==
    \E i \in DOMAIN sends, user \in {NULL, 1} :
        /\ sends[i].pc = "getUser"
        /\ IF ~Autenticado(user)
           THEN /\ EnviarReturn(i, user, FALSE, "Usuario no autenticado")
                /\ UNCHANGED blankInsert
           ELSE /\ sends' = [sends EXCEPT ![i].pc = "insert", ![i].user = user]
                /\ blankInsert' = (blankInsert \/ Trim(sends[i].contenido) = <<>>)
                /\ UNCHANGED <<enviando, typingOps, sendStopped, lastResult>>
        /\ UNCHANGED <<lifecycle, mountsDone, mensajes, cargando, typingUsers,
                       typingTimeoutRef, typingTimers, timers, ucVars, msgVars, typHist,
                       notifyAge, timerStops, burst, trueCalls, dispHist, msgHist, delVars,
                       typOpHist, feedVars>>

\* The identifier the store generates for a row this client inserts.
FreeIds == {id \in MsgIds : \A r \in inserted : r.id # id}
GeneratedId == CHOOSE id \in FreeIds : \A other \in FreeIds : id <= other

\* The store answers the insert: the row is stored, or an error is reported.
EnviarAnswer ==
    \E i \in DOMAIN sends, ok \in BOOLEAN :
        /\ sends[i].pc = "insert"
        /\ IF ok
           THEN /\ FreeIds # {}
                /\ store' = store \cup {NewRow(GeneratedId)}
                /\ inserted' = inserted \cup {NewRow(GeneratedId)}
                /\ feed' = Emit(feed, NewRow(GeneratedId))
                /\ EnviarReturn(i, sends[i].user, TRUE, "none")
           ELSE /\ EnviarReturn(i, sends[i].user, FALSE, "error.message")
                /\ UNCHANGED <<store, inserted, feed>>
        /\ UNCHANGED <<lifecycle, mountsDone, mensajes, cargando, typingUsers,
                       typingTimeoutRef, typingTimers, timers, ucVars, loads, typHist,
                       notifyAge, timerStops, blankInsert, burst, trueCalls, dispHist,
                       msgHist, delVars, typOpHist>>

\* ----------------------------------------- disposers called once more
\* Whoever holds the disposer returned by suscribirseAMensajes calls it again.
DesuscribirAgain ==
    /\ disposerCalls.mensajes \in 1..(MaxCalls - 1)
    /\ LET dm == Desuscribir(channel, channels)
       IN  /\ channel' = dm.field
           /\ channels' = dm.chans
           /\ disposerCalls' = [disposerCalls EXCEPT !.mensajes = @ + 1]
           /\ disposerRemoves' = [disposerRemoves EXCEPT !.mensajes = @ + dm.removes]
    /\ UNCHANGED <<lifecycle, mountsDone, hookVars, timers, typingChannel, msgVars, opVars,
                   typHist, locHist, msgHist, delVars, typOpHist, feedVars>>

\* The same for the disposer returned by suscribirseATyping.
DesuscribirTypingAgain ==
    /\ disposerCalls.typing \in 1..(MaxCalls - 1)
    /\ LET dt == DesuscribirTyping(typingChannel, channels)
       IN  /\ typingChannel' = dt.field
           /\ channels' = dt.chans
           /\ disposerCalls' = [disposerCalls EXCEPT !.typing = @ + 1]
           /\ disposerRemoves' = [disposerRemoves EXCEPT !.typing = @ + dt.removes]
    /\ UNCHANGED <<lifecycle, mountsDone, hookVars, timers, channel, msgVars, opVars,
                   typHist, locHist, msgHist, delVars, typOpHist, feedVars>>

\* ---------------------------------------------------- eliminarMensaje
\* What ChatUseCase.eliminarMensaje returns for the store's answer to the delete.
EliminarResult(failed) ==
    IF failed THEN [success |-> FALSE, error |-> "error.message"]
    ELSE [success |-> TRUE, error |-> ""]

\* The hook's list after the use case returned: filtered on success only.
\* (faulty variant: filters whatever the use case returned)
EliminarViewMutAlways(prev, mensajeId, success) ==
    SelectSeq(prev, LAMBDA m : m.id # mensajeId)
EliminarView(prev, mensajeId, success) ==
    IF success THEN SelectSeq(prev, LAMBDA m : m.id # mensajeId) ELSE prev

\* eliminarMensaje(mensajeId) up to its await.
EliminarCall ==
    \E mensajeId \in MsgIds :
        /\ lifecycle = "mounted"
        /\ Len(deletes) < MaxDeletes
        /\ deletes' = Append(deletes, mensajeId)
        /\ UNCHANGED <<lifecycle, mountsDone, hookVars, timers, ucVars, msgVars, opVars,
                       histVars, lastDelete, typOpHist, feedVars>>

\* The store answers the delete: the row is removed, or no row matched the filter
\* (neither is an error), or the store reports an error. The hook then returns.
EliminarAnswer ==
    \E i \in DOMAIN deletes, outcome \in {"deleted", "none", "error"} :
        LET mensajeId == deletes[i]
            resultado == EliminarResult(outcome = "error")
            after == EliminarView(mensajes, mensajeId, resultado.success)
        IN  /\ outcome = "deleted" => \E r \in store : r.id = mensajeId
            /\ store' = IF outcome = "deleted" THEN {r \in store : r.id # mensajeId}
                        ELSE store
            /\ mensajes' = after
            /\ deletes' = RemoveAt(deletes, i)
            /\ lastDelete' = [done |-> TRUE, resultado |-> resultado,
                              shown |-> CountId(mensajes, mensajeId) > 0,
                              same |-> after = mensajes,
                              gone |-> CountId(after, mensajeId) = 0]
            /\ lastLoad' = IF after = mensajes THEN lastLoad ELSE Stale(lastLoad)
            /\ UNCHANGED <<lifecycle, mountsDone, cargando, enviando, typingUsers,
                           typingTimeoutRef, typingTimers, timers, ucVars, inserted, loads,
                           opVars, typHist, locHist, dispHist, suppressed, typOpHist,
                           feedVars>>

\* ---------------------------------------------------------------- init
Init ==
    /\ lifecycle = "init"
    /\ mountsDone = 0
    /\ mensajes = <<>>
    /\ cargando = TRUE
    /\ enviando = FALSE
    /\ typingUsers = <<>>
    /\ typingTimeoutRef = NULL
    /\ typingTimers = [s \in Senders |-> NULL]
    /\ timers = {}
    /\ channel = NULL
    /\ typingChannel = NULL
    /\ channels = {}
    /\ store = {}
    /\ inserted = {}
    /\ loads = <<>>
    /\ typingOps = [t |-> 0, f |-> 0]
    /\ sends = <<>>
    /\ lastResult = [blank |-> FALSE, success |-> TRUE, error |-> "none",
                     noUser |-> FALSE, insertIssued |-> FALSE]
    /\ lastEvt = [s \in Senders |-> "none"]
    /\ lastTrueAge = [s \in Senders |-> AgeCap]
    /\ refreshed = [s \in Senders |-> FALSE]
    /\ notifyAge = NotifyCap
    /\ timerStops = 0
    /\ sendStopped = FALSE
    /\ blankInsert = FALSE
    /\ burst = 0
    /\ trueCalls = 0
    /\ disposerCalls = NoCalls
    /\ disposerRemoves = NoCalls
    /\ lastLoad = [clean |-> FALSE, data |-> <<>>, failed |-> FALSE, done |-> FALSE]
    /\ suppressed = FALSE
    /\ deletes = <<>>
    /\ lastDelete = [done |-> FALSE, resultado |-> EliminarResult(FALSE), shown |-> FALSE,
                     same |-> TRUE, gone |-> TRUE]
    /\ feed = {}
    /\ lastTyping = [noUser |-> FALSE, sent |-> FALSE, failed |-> FALSE, threw |-> FALSE]

\* The hook's three features share the effect's lifecycle and nothing else: the
\* presence tracker reads and writes typingUsers, typingTimers and their timers; the
\* reconciler mensajes, cargando and the loads; the debouncer and the send path
\* typingTimeoutRef, its timer and the calls in flight. Each has its specification;
\* Spec is all of them together.

\* ------------------------------------------------- presence tracker
NextTyping ==
    \/ Mount
    \/ Cleanup
    \/ \E u \in Senders, b \in BOOLEAN : TypingEvent(u, EmailOf(u), b)
    \/ TypingTimerFire
    \/ Tick

SpecTyping == Init /\ [][NextTyping]_vars

\* ------------------------------------------- message stream reconciler
\* (at most MaxLoads loads are in flight: a remount waits for one to complete)
NextMsgs ==
    \/ Len(loads) < MaxLoads /\ Mount
    \/ Cleanup
    \/ Recargar
    \/ ObtenerAnswer
    \/ CargarDone
    \/ StoreInsert
    \/ DeliverInsert

SpecMsgs == Init /\ [][NextMsgs]_vars

\* ------------------------------------- local typing debouncer and send
NextLocal ==
    \/ Mount
    \/ Cleanup
    \/ NotifyTyping
    \/ DebounceFire
    \/ Tick
    \/ SetTypingResume
    \/ EnviarCall
    \/ EnviarAuth
    \/ EnviarAnswer

SpecLocal == Init /\ [][NextLocal]_vars

\* The debouncer alone: notifyTyping, its timer and the setTyping calls they make.
NextDebounce ==
    \/ Mount
    \/ Cleanup
    \/ NotifyTyping
    \/ DebounceFire
    \/ Tick
    \/ SetTypingResume

SpecDebounce == Init /\ [][NextDebounce]_vars

\* The send path alone: enviarMensaje and the setTyping call it ends with.
NextSend ==
    \/ Mount
    \/ EnviarCall
    \/ EnviarAuth
    \/ EnviarAnswer
    \/ SetTypingResume

SpecSend == Init /\ [][NextSend]_vars

\* ------------------------------------------- the use case's disposers
NextDispose ==
    \/ Mount
    \/ Cleanup
    \/ DesuscribirAgain
    \/ DesuscribirTypingAgain
    \/ NotifyTyping
    \/ SetTypingResume

SpecDispose == Init /\ [][NextDispose]_vars

\* ------------------------------------------ deleting a message
NextDelete ==
    \/ Mount
    \/ StoreInsert
    \/ DeliverInsert
    \/ EliminarCall
    \/ EliminarAnswer
SpecDelete == Init /\ [][NextDelete]_vars

\* ------------------------------------------------------ everything
Next ==
    \/ NextTyping
    \/ NextMsgs
    \/ NextLocal
    \/ NextDispose
    \/ NextDelete

Spec == Init /\ [][Next]_vars

\* ------------------------------------------------------------ claims
TypingTimersOf(u) == {t \in timers : t.kind = "typing" /\ t.key = u}

\* C3: after the effect cleanup has run, no per-sender timer is pending and the
\* typing-user set is empty.
C3_TeardownLeavesNothing ==
    lifecycle = "unmounted" =>
        /\ typingUsers = <<>>
        /\ \A u \in Senders : TypingTimersOf(u) = {} /\ typingTimers[u] = NULL

\* C4: typingUsers holds at most one entry per sender identifier, whatever
\* typing events and timer expiries have happened.
C4_OnePerSender == \A u \in Senders : CountUser(typingUsers, u) <= 1

C4_Witness ==
    /\ Len(typingUsers) = MaxSenders
    /\ \E u \in Senders : refreshed[u]

\* C5: while less than 3000ms have passed since the most recent TypingEvent(true)
\* for a sender (and no false event or teardown came after it), the sender has
\* exactly one entry; it has one expiry timer, due no earlier than 3000ms after
\* that event.
C5_RefreshExtendsExpiry ==
    \A u \in Senders :
        /\ (lastEvt[u] = "true" /\ lastTrueAge[u] < TYPING_EXPIRY_MS)
               => (CountUser(typingUsers, u) = 1 /\ Cardinality(TypingTimersOf(u)) = 1)
        /\ \A t \in TypingTimersOf(u) :
               t.remaining + lastTrueAge[u] >= TYPING_EXPIRY_MS

C5_Witness ==
    \E u \in Senders :
        /\ refreshed[u]
        /\ lastTrueAge[u] > 0
        /\ CountUser(typingUsers, u) = 1

\* C6: once a TypingEvent(false) for a sender has been handled, the sender is
\* absent and no expiry timer of that sender is pending, until the next
\* TypingEvent(true) for it.
C6_FalseRemovesAndCancels ==
    \A u \in Senders :
        lastEvt[u] \in {"stop", "false"} =>
            /\ CountUser(typingUsers, u) = 0
            /\ TypingTimersOf(u) = {}
            /\ typingTimers[u] = NULL

C6_Witness == \E u \in Senders : lastEvt[u] = "stop"

\* C1: the displayed list never holds two entries with the same id, whatever
\* insert events (repeated ones included) and history loads have happened.
C1_NoDuplicateIds == \A id \in MsgIds : CountId(mensajes, id) <= 1

C1_Witness ==
    /\ suppressed
    /\ Len(mensajes) = MaxMsgs

\* C10: when a history load has completed and no live event has changed the list
\* since, the displayed list is the store's newest-first answer reversed, hence
\* strictly oldest-to-newest.
C10_HistoryOldestFirst ==
    lastLoad.clean =>
        /\ Len(mensajes) = Len(lastLoad.data)
        /\ \A i \in DOMAIN mensajes :
               mensajes[i].id = lastLoad.data[Len(mensajes) + 1 - i].id
        /\ \A i, j \in DOMAIN mensajes :
               i < j => mensajes[i].created_at < mensajes[j].created_at

C10_Witness ==
    /\ lastLoad.clean
    /\ Len(mensajes) = MaxMsgs

\* C2: once an enviarMensaje (non-empty body) called after the last notifyTyping
\* has made its setTyping(false) call, no debounce timer is pending any more, so
\* none makes a second stop call later.
C2_SendCancelsDebounce == sendStopped => DebounceTimers = {}

\* C7: the notifyTyping calls since the last stop leave exactly one pending
\* debounce timer, due exactly 1500ms after the last call; the timer makes at most
\* one setTyping(false) call per burst, 1500ms after the last notifyTyping, and
\* every notifyTyping of the burst has called setTyping(true) itself.
C7_OneStopPerBurst ==
    /\ Cardinality(DebounceTimers) <= 1
    /\ \A t \in DebounceTimers : t.remaining + notifyAge = DEBOUNCE_MS
    /\ (notifyAge <= DEBOUNCE_MS /\ timerStops = 0) => Cardinality(DebounceTimers) = 1
    /\ timerStops <= 1
    /\ timerStops = 1 => (DebounceTimers = {} /\ notifyAge >= DEBOUNCE_MS)
    /\ trueCalls = burst

C7_Witness ==
    /\ burst >= 3
    /\ timerStops = 1

\* C8: a call of enviarMensaje with an empty or whitespace-only body returns the
\* validation failure, and no call in flight (hence no getUser and no insert) ever
\* carries such a body.
C8_BlankBodyRejected ==
    /\ lastResult.blank =>
           (~lastResult.success /\ lastResult.error = "El mensaje está vacío")
    /\ \A i \in DOMAIN sends : Trim(sends[i].contenido) # <<>>
    /\ ~blankInsert

C8_Witness ==
    /\ lastResult.blank
    /\ store # {}

\* C9: each disposer makes exactly one removeChannel call, however often it is
\* called.
C9_DisposersCloseOnce ==
    /\ disposerCalls.mensajes >= 1 => disposerRemoves.mensajes = 1
    /\ disposerCalls.typing >= 1 => disposerRemoves.typing = 1

\* C11: eliminarMensaje takes the message out of the displayed list only when the
\* store reported the deletion as successful; when the store reports an error the
\* call returns {success: false, error} and the displayed list is what it was.
C11_DeleteOnlyOnSuccess ==
    lastDelete.done =>
        /\ lastDelete.resultado.success => lastDelete.gone
        /\ ~lastDelete.resultado.success =>
               lastDelete.same /\ lastDelete.resultado.error # ""
        /\ ~lastDelete.same => lastDelete.resultado.success
\* a delete of a displayed message failed
C11_Witness ==
    lastDelete.done /\ lastDelete.shown /\ ~lastDelete.resultado.success
\* C12: a send for which getUser resolves no user returns the authentication
\* failure ({success: false, error: "Usuario no autenticado"}) and never issues
\* the store insert.
C12_NoUserNoInsert ==
    /\ lastResult.noUser =>
           /\ ~lastResult.success
           /\ lastResult.error = "Usuario no autenticado"
           /\ ~lastResult.insertIssued
    /\ \A i \in DOMAIN sends : sends[i].pc = "insert" => sends[i].user # NULL
\* a send returned for which no user was resolved, after another was stored
C12_Witness ==
    /\ lastResult.noUser
    /\ ~lastResult.blank
    /\ store # {}
C14_FailedLoadShowsEmpty ==
    /\ \A i \in DOMAIN loads :
           (loads[i].pc = "answered" /\ loads[i].failed) =>
               (loads[i].result = <<>> /\ ~loads[i].threw)
    /\ (lastLoad.clean /\ lastLoad.failed) => mensajes = <<>>
    /\ (lifecycle # "init" /\ loads = <<>>) => ~cargando
\* a load failed although the store holds rows, and nothing changed the list since
C14_Witness ==
    /\ lastLoad.clean
    /\ lastLoad.failed
    /\ store # {}
    /\ loads = <<>>
\* C15: every sender in the typing state becomes absent unless another
\* TypingEvent(true) arrives for it: each displayed entry has its expiry timer
\* pending, due at most 3000ms after the sender's latest true event (a false event
\* may remove the entry sooner).
C15_TypingEntryExpires ==
    \A u \in Senders :
        CountUser(typingUsers, u) > 0 =>
            \E t \in TypingTimersOf(u) :
                /\ t.id = typingTimers[u]
                /\ t.remaining <= TYPING_EXPIRY_MS
\* C16: once the teardown of useChat has run and every operation in flight has
\* completed (the setTyping calls made by notifyTyping, by the debounce timer and
\* by enviarMensaje), ChatUseCase holds no channel, every channel it created is
\* removed, and no debounce timer is pending.
C16_QuiescentAfterTeardown ==
    (lifecycle = "unmounted" /\ OpsInFlight = 0 /\ sends = <<>>) =>
        /\ channel = NULL
        /\ typingChannel = NULL
        /\ channels = {}
        /\ DebounceTimers = {}
\* a is displayed before b
Before(list, a, b) ==
    \E i, j \in DOMAIN list : i < j /\ list[i].id = a /\ list[j].id = b

\* C17: once a message is displayed, its position relative to the other
\* displayed messages does not change: two messages displayed before and after a
\* step (a live insert event, a delete of another message, a completed reload)
\* are in the same order after it.
C17_OrderStable ==
    [][\A a, b \in MsgIds :
           (Before(mensajes, a, b) /\ CountId(mensajes', a) > 0 /\ CountId(mensajes', b) > 0)
               => Before(mensajes', a, b)]_vars
\* C18: completing a history load never drops a message the live insert callback
\* delivered while the load was in flight and that is still in the store. (Until
\* the first load completes every displayed message was delivered live.)
C18_LoadKeepsLiveMessages ==
    [][~lastLoad.done =>
           \A i \in DOMAIN mensajes :
               (\E r \in store : r.id = mensajes[i].id)
                   => CountId(mensajes', mensajes[i].id) > 0]_vars
\* C19: in every state before the teardown, the senders with a pending expiry
\* timer (the keys of typingTimers, each holding the handle of a pending timer of
\* that sender) are exactly the senders in typingUsers.
C19_TimersMatchTypingUsers ==
    (mountsDone <= 1 /\ lifecycle # "unmounted") =>
        \A u \in Senders :
            /\ typingTimers[u] # NULL <=> CountUser(typingUsers, u) > 0
            /\ typingTimers[u] # NULL <=> TypingTimersOf(u) # {}
            /\ \A t \in TypingTimersOf(u) : t.id = typingTimers[u]
\* before the teardown one sender is typing and another's entry has expired
C19_Witness ==
    /\ mountsDone = 1
    /\ lifecycle = "mounted"
    /\ \E u, v \in Senders :
           /\ CountUser(typingUsers, u) > 0
           /\ lastEvt[v] = "true"
           /\ CountUser(typingUsers, v) = 0
====
